---- MODULE Spec2Model ----
(***************************************************************************)
(* Asset-transfer chaincode (Hyperledger Fabric v0.6 shim).                *)
(*                                                                         *)
(* The repository holds two versions of the contract:                      *)
(*   - the role-gated one  (src/chaincode-assettransfer.go),               *)
(*   - the role-less one   (src/unnamed/part_000).                         *)
(* Exactly one of them is deployed on a ledger; `variant` says which.      *)
(*                                                                         *)
(* Go strings are sequences of one-character strings, so that              *)
(* strings.Index, concatenation of key names, strconv.Atoi/Itoa and the    *)
(* JSON number text are computed and not assumed.  The world state is the  *)
(* key/value store behind shim.ChaincodeStubInterface: GetState of a key   *)
(* never written yields zero bytes and no error, and a PutState/DelState   *)
(* that returns no error has taken effect.  One invocation runs to its end *)
(* without interleaving; the store faults it meets are inputs of the       *)
(* action.  Go's int is 64 bits wide; within MaxCalls invocations the      *)
(* balances of this model stay far from that width.                        *)
(***************************************************************************)
EXTENDS Integers, Sequences, FiniteSets, TLC

VARIABLES
    variant,   \* which contract is deployed: "roles" or "noroles"
    store,     \* the world state: key -> bytes
    reply,     \* the report of the invocation that has just ended, until the
               \* host hands it to the caller; Idle between invocations
    ncalls,    \* the number of invocations made so far
    faulted    \* whether some invocation so far met a store fault

vars == <<variant, store, reply, ncalls, faulted>>

----------------------------------------------------------------------------
(* Bounds of the model *)

\* a run makes at most MaxCalls invocations
MaxCalls == 5

----------------------------------------------------------------------------
(* Strings *)

Digits == <<"0", "1", "2", "3", "4", "5", "6", "7", "8", "9">>

IsDigit(c) == \E i \in 1..10 : Digits[i] = c

DigitVal(c) == (CHOOSE i \in 1..10 : Digits[i] = c) - 1

\* strings.Index(s, c) for a one-character c: 0-based position of the first
\* occurrence, -1 when there is none
StringsIndex(s, c) ==
    IF \E i \in 1..Len(s) : s[i] = c
    THEN (CHOOSE i \in 1..Len(s) : s[i] = c /\ \A j \in 1..(i-1) : s[j] # c) - 1
    ELSE -1

RECURSIVE NatOfDigits(_)
NatOfDigits(s) ==
    IF s = <<>> THEN 0
    ELSE 10 * NatOfDigits(SubSeq(s, 1, Len(s) - 1)) + DigitVal(s[Len(s)])

\* strconv.Atoi: optional sign, then one or more decimal digits
Atoi(s) ==
    LET signed == Len(s) > 0 /\ s[1] \in {"+", "-"}
        body   == IF signed THEN Tail(s) ELSE s
    IN  IF body = <<>> \/ \E i \in 1..Len(body) : ~IsDigit(body[i])
        THEN [ok |-> FALSE, v |-> 0]
        ELSE [ok |-> TRUE,
              v  |-> IF signed /\ s[1] = "-" THEN 0 - NatOfDigits(body)
                     ELSE NatOfDigits(body)]

RECURSIVE ItoaNat(_)
ItoaNat(n) ==
    IF n < 10 THEN <<Digits[n + 1]>>
    ELSE ItoaNat(n \div 10) \o <<Digits[(n % 10) + 1]>>

\* strconv.Itoa
Itoa(n) == IF n < 0 THEN <<"-">> \o ItoaNat(0 - n) ELSE ItoaNat(n)

----------------------------------------------------------------------------
(* Program constants, role-gated contract *)

varJoinedUsersIndex ==
    <<"_", "j", "o", "i", "n", "e", "d", "U", "s", "e", "r", "s",
      "I", "n", "d", "e", "x">>

varJoinedUsers ==
    <<"_", "j", "o", "i", "n", "e", "d", "U", "s", "e", "r", "s", "_">>

initialAssetBalance == 100

roleAdmin == <<"a", "d", "m", "i", "n">>

roleUser == <<"u", "s", "e", "r">>

\* the literal "admin" that join compares the invoker's id with
bootstrapId == <<"a", "d", "m", "i", "n">>

----------------------------------------------------------------------------
(* Byte values: what json.Marshal writes and json.Unmarshal reads *)

\* the zero-length value GetState returns for a key never written
NoBytes == [j |-> "empty"]

JsonNull == [j |-> "null"]

\* the user struct {Id, Role, AssetBalance}; zero value of the struct
ZeroUser == [Id |-> <<>>, Role |-> <<>>, AssetBalance |-> 0]

\* a marshalling that loses the role, which C11_JoinEffect must tell from
\* MarshalUser
MarshalUserNoRole(u) ==
    [j |-> "object", id |-> u.Id, role |-> <<>>,
     assetBalance |-> Itoa(u.AssetBalance)]

\* json.Marshal of a user: an object whose number is written as decimal text
MarshalUser(u) ==
    [j |-> "object", id |-> u.Id, role |-> u.Role,
     assetBalance |-> Itoa(u.AssetBalance)]

\* json.Unmarshal(bytes, &user): zero bytes, an array and raw text are errors;
\* null leaves the zero struct
UnmarshalUser(b) ==
    IF b.j = "object"
    THEN LET n == Atoi(b.assetBalance)
         IN  IF n.ok /\ b.assetBalance[1] # "+"
             THEN [ok |-> TRUE,
                   v  |-> [Id |-> b.id, Role |-> b.role, AssetBalance |-> n.v]]
             ELSE [ok |-> FALSE, v |-> ZeroUser]
    ELSE IF b.j = "null" THEN [ok |-> TRUE, v |-> ZeroUser]
    ELSE [ok |-> FALSE, v |-> ZeroUser]

\* json.Marshal of a []string: a nil slice is written as null.  Every slice
\* the contracts marshal is either nil or non-empty.
MarshalIndex(ix) ==
    IF ix = <<>> THEN JsonNull ELSE [j |-> "array", v |-> ix]

\* an unmarshalling that reads zero bytes as the empty index, which
\* C19_UninitializedFails must tell from UnmarshalIndex
UnmarshalIndexLenient(b) ==
    IF b.j = "array" THEN [ok |-> TRUE, v |-> b.v]
    ELSE IF b.j \in {"null", "empty"} THEN [ok |-> TRUE, v |-> <<>>]
    ELSE [ok |-> FALSE, v |-> <<>>]

\* json.Unmarshal(bytes, &[]string)
UnmarshalIndex(b) ==
    IF b.j = "array" THEN [ok |-> TRUE, v |-> b.v]
    ELSE IF b.j = "null" THEN [ok |-> TRUE, v |-> <<>>]
    ELSE [ok |-> FALSE, v |-> <<>>]

\* []byte(s) for a Go string s
RawBytes(s) == [j |-> "text", v |-> s]

----------------------------------------------------------------------------
(* The world state behind the stub *)

EmptyStore == [k \in {} |-> NoBytes]

GetState(st, key) == IF key \in DOMAIN st THEN st[key] ELSE NoBytes

PutState(st, key, bytes) ==
    [k \in DOMAIN st \cup {key} |-> IF k = key THEN bytes ELSE st[k]]

\* a delete that removes nothing, which C13_JoinCompensation must tell from
\* DelState
DelStateKeeps(st, key) == st

DelState(st, key) == [k \in DOMAIN st \ {key} |-> st[k]]

\* one store call as the invocation issued it
Call(op, key, ok) == [op |-> op, key |-> key, ok |-> ok]

\* how a handler ends: "ok" / "error" (a returned error) / "panic"
\* err is the kind of failure, detail the datum its message carries
Outcome(out, err, detail, data) ==
    [out |-> out, err |-> err, detail |-> detail, data |-> data]

\* state after the handler, the store calls it issued, and how it ended
Result(st, calls, out, err, detail, data) ==
    [st |-> st, calls |-> calls, res |-> Outcome(out, err, detail, data)]

Panic(st, calls, err) == Result(st, calls, "panic", err, <<>>, NoBytes)

\* a panic whose message leaves its datum out, which
\* C21_SingleCompensation must tell from PanicWith
PanicWithout(st, calls, err, detail) == Result(st, calls, "panic", err, <<>>, NoBytes)

PanicWith(st, calls, err, detail) == Result(st, calls, "panic", err, detail, NoBytes)

ReturnError(st, calls, err) == Result(st, calls, "error", err, <<>>, NoBytes)

ReturnErrorWith(st, calls, err, detail) ==
    Result(st, calls, "error", err, detail, NoBytes)

ReturnOk(st, calls, data) == Result(st, calls, "ok", "", <<>>, data)

----------------------------------------------------------------------------
(* Role-gated contract: src/chaincode-assettransfer.go *)

\* getUserDetails: GetState error -> returned error; bytes that do not
\* unmarshal (also the zero bytes of a missing key) -> panic
getUserDetails(st, userId, readFails) ==
    IF readFails THEN [out |-> "error", v |-> ZeroUser]
    ELSE LET u == UnmarshalUser(GetState(st, varJoinedUsers \o userId))
         IN  IF u.ok THEN [out |-> "ok", v |-> u.v]
             ELSE [out |-> "panic", v |-> ZeroUser]

\* a lookup that finds nothing, which C4_IndexUnique must tell from InIndex
InIndexNever(ix, id) == FALSE

\* a lookup that finds every id, which C22_MembershipByIndex must tell from
\* InIndex
InIndexAlways(ix, id) == TRUE

\* the loop over the index that looks for an id
InIndex(ix, id) == \E i \in 1..Len(ix) : ix[i] = id

\* a test that admits every invoker, which C8_JoinAuthorization must tell
\* from JoinPermitted
JoinPermittedAny(userId, userRole) == TRUE

\* join's test of the invoker
JoinPermitted(userId, userRole) == ~(userId # bootstrapId /\ userRole # roleAdmin)

\* a test that admits every role, which C9_RejoinFails must tell from
\* ValidRole
ValidRoleAny(joineeRole) == TRUE

\* join's test of the joinee role
ValidRole(joineeRole) == ~(joineeRole # roleAdmin /\ joineeRole # roleUser)

\* a join that writes the index before the record and does not compensate,
\* which C14_IndexHasRecords must tell from joinWrite
joinWriteIndexFirst(st, ix, joineeId, joineeRole, wf) ==
    LET joineeKey     == varJoinedUsers \o joineeId
        joineeDetails == [Id |-> joineeId, Role |-> joineeRole,
                          AssetBalance |-> initialAssetBalance]
        c1  == Call("put", varJoinedUsersIndex, 1 \notin wf)
        st1 == PutState(st, varJoinedUsersIndex, MarshalIndex(Append(ix, joineeId)))
        c2  == Call("put", joineeKey, 2 \notin wf)
        st2 == PutState(st1, joineeKey, MarshalUser(joineeDetails))
    IN  IF 1 \in wf THEN Panic(st, <<c1>>, "StorageFailure")
        ELSE IF 2 \in wf THEN Panic(st1, <<c1, c2>>, "StorageFailure")
        ELSE ReturnOk(st2, <<c1, c2>>, NoBytes)

\* a join that keeps a record already stored under the joinee's key, which
\* C24_TotalSupply must tell from joinWrite
joinWriteKeepsRecord(st, ix, joineeId, joineeRole, wf) ==
    LET joineeKey     == varJoinedUsers \o joineeId
        joineeDetails == [Id |-> joineeId, Role |-> joineeRole,
                          AssetBalance |-> initialAssetBalance]
        c1  == Call("put", joineeKey, 1 \notin wf)
        st1 == IF joineeKey \in DOMAIN st THEN st
               ELSE PutState(st, joineeKey, MarshalUser(joineeDetails))
        c2  == Call("put", varJoinedUsersIndex, 2 \notin wf)
        st2 == PutState(st1, varJoinedUsersIndex, MarshalIndex(Append(ix, joineeId)))
        c3  == Call("del", joineeKey, 3 \notin wf)
    IN  IF 1 \in wf THEN Panic(st, <<c1>>, "StorageFailure")
        ELSE IF 2 \in wf
             THEN IF 3 \notin wf
                  THEN Panic(DelState(st1, joineeKey), <<c1, c2, c3>>, "RolledBack")
                  ELSE PanicWith(st1, <<c1, c2, c3>>, "ManualRollback", joineeKey)
             ELSE ReturnOk(st2, <<c1, c2>>, NoBytes)

\* join, from the creation of the joinee's record to the end; ix is the index
\* just read.  Writes are numbered 1 (record), 2 (index), 3 (rollback delete).
joinWrite(st, ix, joineeId, joineeRole, wf) ==
    LET joineeKey     == varJoinedUsers \o joineeId
        joineeDetails == [Id |-> joineeId, Role |-> joineeRole,
                          AssetBalance |-> initialAssetBalance]
        c1  == Call("put", joineeKey, 1 \notin wf)
        st1 == PutState(st, joineeKey, MarshalUser(joineeDetails))
        newJoinedUsersIndex == Append(ix, joineeId)
        c2  == Call("put", varJoinedUsersIndex, 2 \notin wf)
        st2 == PutState(st1, varJoinedUsersIndex, MarshalIndex(newJoinedUsersIndex))
        c3  == Call("del", joineeKey, 3 \notin wf)
    IN  IF 1 \in wf THEN Panic(st, <<c1>>, "StorageFailure")
        ELSE IF 2 \in wf
             THEN IF 3 \notin wf
                  THEN Panic(DelState(st1, joineeKey), <<c1, c2, c3>>, "RolledBack")
                  ELSE PanicWith(st1, <<c1, c2, c3>>, "ManualRollback", joineeKey)
             ELSE ReturnOk(st2, <<c1, c2>>, NoBytes)

\* rf: the reads of this call that fail (read 1 is the index);
\* wf: the writes of this call that fail
join(st, userId, userRole, args, rf, wf) ==
    IF Len(args) # 2 THEN Panic(st, <<>>, "ArgCount")
    ELSE IF ~JoinPermitted(userId, userRole) THEN Panic(st, <<>>, "PermissionDenied")
    ELSE LET joineeId   == args[1]
             joineeRole == args[2]
             ix         == UnmarshalIndex(GetState(st, varJoinedUsersIndex))
         IN  IF StringsIndex(joineeId, "_") = 0 THEN Panic(st, <<>>, "InvalidId")
             ELSE IF ~ValidRole(joineeRole) THEN Panic(st, <<>>, "InvalidRole")
             ELSE IF 1 \in rf THEN Panic(st, <<>>, "StorageFailure")
             ELSE IF ~ix.ok THEN Panic(st, <<>>, "IndexUnmarshal")
             ELSE IF InIndex(ix.v, joineeId) THEN Panic(st, <<>>, "AlreadyExists")
             ELSE joinWrite(st, ix.v, joineeId, joineeRole, wf)

\* a test that admits every invoker, which C7_ForeignTransferFails must tell
\* from TransferPermitted
TransferPermittedAny(userId, senderId) == TRUE

\* transfer's test of the invoker
TransferPermitted(userId, senderId) == ~(userId # senderId)

\* a credit that is lost, which C1_Conservation must tell from
\* NewReceiverBalance
NewReceiverBalanceLost(receiverAssetBalance, assetQuantity) ==
    receiverAssetBalance

\* the balance credited to the receiver
NewReceiverBalance(receiverAssetBalance, assetQuantity) ==
    receiverAssetBalance + assetQuantity

\* a funds check that comes after the sender's record is written, which
\* C10_FailFast must tell from InsufficientFunds
InsufficientFundsAfterWrite(st, senderDetails, newSenderAssetBalance) ==
    LET senderKey == varJoinedUsers \o senderDetails.Id
    IN  Panic(PutState(st, senderKey,
                       MarshalUser([senderDetails EXCEPT
                                      !.AssetBalance = newSenderAssetBalance])),
              <<Call("put", senderKey, TRUE)>>, "InsufficientFunds")

\* the end of a transfer whose sender cannot pay
InsufficientFunds(st, senderDetails, newSenderAssetBalance) ==
    Panic(st, <<>>, "InsufficientFunds")

\* the key the compensating write of transfer is issued for
RollbackKey(senderId) == senderId

\* a transfer that issues its compensating write on success too, which
\* C12_TransferEffect must tell from transferWrite
transferWriteStray(st, senderId, receiverId, senderDetails, receiverDetails, senderAssetBalance, wf) ==
    LET senderKey   == varJoinedUsers \o senderId
        receiverKey == varJoinedUsers \o receiverId
        c1  == Call("put", senderKey, 1 \notin wf)
        st1 == PutState(st, senderKey, MarshalUser(senderDetails))
        c2  == Call("put", receiverKey, 2 \notin wf)
        st2 == PutState(st1, receiverKey, MarshalUser(receiverDetails))
        restored == [senderDetails EXCEPT !.AssetBalance = senderAssetBalance]
        c3  == Call("put", RollbackKey(senderId), 3 \notin wf)
    IN  IF 1 \in wf THEN Panic(st, <<c1>>, "StorageFailure")
        ELSE IF 2 \in wf
             THEN Panic(PutState(st1, RollbackKey(senderId), MarshalUser(restored)),
                        <<c1, c2, c3>>, "RolledBack")
             ELSE ReturnOk(PutState(st2, RollbackKey(senderId), MarshalUser(restored)),
                           <<c1, c2, c3>>, NoBytes)

\* transfer, from the two updated records to the end.
\* Writes are numbered 1 (sender), 2 (receiver), 3 (rollback of the sender).
transferWrite(st, senderId, receiverId, senderDetails, receiverDetails, senderAssetBalance, wf) ==
    LET senderKey   == varJoinedUsers \o senderId
        receiverKey == varJoinedUsers \o receiverId
        c1  == Call("put", senderKey, 1 \notin wf)
        st1 == PutState(st, senderKey, MarshalUser(senderDetails))
        c2  == Call("put", receiverKey, 2 \notin wf)
        st2 == PutState(st1, receiverKey, MarshalUser(receiverDetails))
        restored == [senderDetails EXCEPT !.AssetBalance = senderAssetBalance]
        c3  == Call("put", RollbackKey(senderId), 3 \notin wf)
        st3 == PutState(st1, RollbackKey(senderId), MarshalUser(restored))
    IN  IF 1 \in wf THEN Panic(st, <<c1>>, "StorageFailure")
        ELSE IF 2 \in wf
             THEN IF 3 \notin wf
                  THEN Panic(st3, <<c1, c2, c3>>, "RolledBack")
                  ELSE PanicWith(st1, <<c1, c2, c3>>, "Inconsistent",
                                 Itoa(senderAssetBalance))
             ELSE ReturnOk(st2, <<c1, c2>>, NoBytes)

\* transfer, from the reading of the sender's record on.
\* Reads 2 and 3 are the sender's and the receiver's record.
transferApply(st, senderId, receiverId, assetQuantity, rf, wf) ==
    LET s == getUserDetails(st, senderId, 2 \in rf)
        r == getUserDetails(st, receiverId, 3 \in rf)
        senderAssetBalance    == s.v.AssetBalance
        newSenderAssetBalance == senderAssetBalance - assetQuantity
        senderDetails   == [s.v EXCEPT !.AssetBalance = newSenderAssetBalance]
        receiverDetails ==
            [r.v EXCEPT !.AssetBalance =
                            NewReceiverBalance(r.v.AssetBalance, assetQuantity)]
    IN  IF s.out = "panic" THEN Panic(st, <<>>, "UserUnmarshal")
        ELSE IF s.out = "error" THEN Panic(st, <<>>, "StorageFailure")
        ELSE IF newSenderAssetBalance < 0
             THEN InsufficientFunds(st, s.v, newSenderAssetBalance)
        ELSE IF r.out = "panic" THEN Panic(st, <<>>, "UserUnmarshal")
        ELSE IF r.out = "error" THEN Panic(st, <<>>, "StorageFailure")
        ELSE transferWrite(st, senderId, receiverId, senderDetails,
                           receiverDetails, senderAssetBalance, wf)

transfer(st, userId, userRole, args, rf, wf) ==
    IF Len(args) # 3 THEN ReturnError(st, <<>>, "ArgCount")
    ELSE LET senderId   == args[1]
             receiverId == args[2]
             q          == Atoi(args[3])
             ix         == UnmarshalIndex(GetState(st, varJoinedUsersIndex))
         IN  IF StringsIndex(senderId, "_") = 0 \/ StringsIndex(receiverId, "_") = 0
             THEN Panic(st, <<>>, "InvalidId")
             ELSE IF senderId = receiverId THEN Panic(st, <<>>, "SelfTransfer")
             ELSE IF ~TransferPermitted(userId, senderId)
                  THEN Panic(st, <<>>, "PermissionDenied")
             ELSE IF ~q.ok THEN Panic(st, <<>>, "NotInteger")
             ELSE IF 1 \in rf THEN Panic(st, <<>>, "StorageFailure")
             ELSE IF ~ix.ok THEN Panic(st, <<>>, "IndexUnmarshal")
             ELSE IF ~InIndex(ix.v, senderId) THEN Panic(st, <<>>, "SenderNotMember")
             ELSE IF ~InIndex(ix.v, receiverId)
                  THEN Panic(st, <<>>, "ReceiverNotMember")
             ELSE transferApply(st, senderId, receiverId, q.v, rf, wf)

\* an Init that keeps an index already stored, which C16_InitEffect must
\* tell from ChaincodeInit
ChaincodeInitKeeps(st, args, wf) ==
    IF Len(args) # 0 THEN ReturnError(st, <<>>, "ArgCount")
    ELSE IF 1 \in wf
         THEN ReturnError(st, <<Call("put", varJoinedUsersIndex, FALSE)>>,
                          "StorageFailure")
         ELSE IF varJoinedUsersIndex \in DOMAIN st
              THEN ReturnOk(st, <<Call("put", varJoinedUsersIndex, TRUE)>>, NoBytes)
              ELSE ReturnOk(PutState(st, varJoinedUsersIndex, MarshalIndex(<<>>)),
                            <<Call("put", varJoinedUsersIndex, TRUE)>>, NoBytes)

\* Init of the chaincode: one write, numbered 1
ChaincodeInit(st, args, wf) ==
    IF Len(args) # 0 THEN ReturnError(st, <<>>, "ArgCount")
    ELSE IF 1 \in wf
         THEN ReturnError(st, <<Call("put", varJoinedUsersIndex, FALSE)>>,
                          "StorageFailure")
         ELSE ReturnOk(PutState(st, varJoinedUsersIndex, MarshalIndex(<<>>)),
                       <<Call("put", varJoinedUsersIndex, TRUE)>>, NoBytes)

\* function names the dispatchers compare with
fnInit == <<"i", "n", "i", "t">>

fnJoin == <<"j", "o", "i", "n">>

fnTransfer == <<"t", "r", "a", "n", "s", "f", "e", "r">>

fnGetAssetBalance ==
    <<"g", "e", "t", "a", "s", "s", "e", "t", "b", "a", "l", "a", "n", "c", "e">>

fnGetAllJoinedUsers ==
    <<"g", "e", "t", "a", "l", "l", "j", "o", "i", "n", "e", "d",
      "u", "s", "e", "r", "s">>

\* Invoke up to its return statement: the invoker's name and record, then the
\* routed handler.  cf: reading the certificate attribute fails; uf: the read
\* of the invoker's record fails.  `fn` is the handler that ran.
InvokeBody(st, invoker, function, args, cf, uf, rf, wf) ==
    LET u == getUserDetails(st, invoker, uf)
        none(r) == [fn |-> "none", h |-> r]
    IN  IF cf THEN none(Panic(st, <<>>, "CertAttribute"))
        ELSE IF u.out = "panic" THEN none(Panic(st, <<>>, "UserUnmarshal"))
        ELSE IF u.out = "error" THEN none(ReturnError(st, <<>>, "StorageFailure"))
        ELSE IF function = fnInit
             THEN [fn |-> "Init", h |-> ChaincodeInit(st, args, wf)]
        ELSE IF function = fnJoin
             THEN [fn |-> "join", h |-> join(st, invoker, u.v.Role, args, rf, wf)]
        ELSE IF function = fnTransfer
             THEN [fn |-> "transfer",
                   h  |-> transfer(st, invoker, u.v.Role, args, rf, wf)]
        ELSE none(ReturnErrorWith(st, <<>>, "UnknownFunction", function))

\* the deferred function of Invoke, run on every exit: recover().(string)
\* yields the message of a panic raised with a string; with no panic in
\* flight recover() is nil and the type assertion itself panics
Recover(res) ==
    IF res.out = "panic"
    THEN Outcome("error", res.err, res.detail, NoBytes)
    ELSE Outcome("panic", "TypeAssertion", <<>>, NoBytes)

\* Invoke: the body's effects and the dispatcher's own outcome
Invoke(st, invoker, function, args, cf, uf, rf, wf) ==
    LET b == InvokeBody(st, invoker, function, args, cf, uf, rf, wf)
    IN  [st |-> b.h.st, calls |-> b.h.calls, fn |-> b.fn, hres |-> b.h.res,
         res |-> Recover(b.h.res),
         role |-> getUserDetails(st, invoker, uf).v.Role]

\* a Query that writes an empty index when it finds none, which
\* C17_QueriesReadOnly must tell from Query
QueryLazyInit(st, function, args, rf) ==
    IF function = fnGetAssetBalance
    THEN IF Len(args) # 1 THEN ReturnError(st, <<>>, "ArgCount")
         ELSE LET u == getUserDetails(st, args[1], 1 \in rf)
              IN  IF u.out = "error" THEN ReturnError(st, <<>>, "StorageFailure")
                  ELSE IF u.out = "panic" THEN Panic(st, <<>>, "UserUnmarshal")
                  ELSE ReturnOk(st, <<>>, RawBytes(Itoa(u.v.AssetBalance)))
    ELSE IF function = fnGetAllJoinedUsers
    THEN LET b == GetState(st, varJoinedUsersIndex)
         IN  IF 1 \in rf THEN Panic(st, <<>>, "StorageFailure")
             ELSE IF ~UnmarshalIndex(b).ok
                  THEN ReturnOk(PutState(st, varJoinedUsersIndex, JsonNull),
                                <<Call("put", varJoinedUsersIndex, TRUE)>>, JsonNull)
             ELSE ReturnOk(st, <<>>, b)
    ELSE ReturnErrorWith(st, <<>>, "UnknownFunction", function)

\* Query: read 1 is the only read of either function
Query(st, function, args, rf) ==
    IF function = fnGetAssetBalance
    THEN IF Len(args) # 1 THEN ReturnError(st, <<>>, "ArgCount")
         ELSE LET u == getUserDetails(st, args[1], 1 \in rf)
              IN  IF u.out = "error" THEN ReturnError(st, <<>>, "StorageFailure")
                  ELSE IF u.out = "panic" THEN Panic(st, <<>>, "UserUnmarshal")
                  ELSE ReturnOk(st, <<>>, RawBytes(Itoa(u.v.AssetBalance)))
    ELSE IF function = fnGetAllJoinedUsers
    THEN LET b == GetState(st, varJoinedUsersIndex)
         IN  IF 1 \in rf THEN Panic(st, <<>>, "StorageFailure")
             ELSE IF ~UnmarshalIndex(b).ok THEN Panic(st, <<>>, "IndexUnmarshal")
             ELSE ReturnOk(st, <<>>, b)
    ELSE ReturnErrorWith(st, <<>>, "UnknownFunction", function)

----------------------------------------------------------------------------
(* Role-less contract: src/unnamed/part_000 *)

joinedUsersStr ==
    <<"_", "j", "o", "i", "n", "e", "d", "U", "s", "e", "r", "s">>

\* the string constant "100"
initialAssetBalanceV0 == <<"1", "0", "0">>

\* json.Unmarshal into a nil []string with the error ignored
IndexOrNil(b) == IF UnmarshalIndex(b).ok THEN UnmarshalIndex(b).v ELSE <<>>

\* strconv.Atoi(string(bytes)): only stored decimal text parses
AtoiBytes(b) == IF b.j = "text" THEN Atoi(b.v) ELSE [ok |-> FALSE, v |-> 0]

\* writes: 1 (index), 2 (balance of the joinee); the statements after the
\* return of the second failure are never run
joinV0(st, args, rf, wf) ==
    IF Len(args) # 1 THEN ReturnError(st, <<>>, "ArgCount")
    ELSE LET joineeId == args[1]
             ix       == IndexOrNil(GetState(st, joinedUsersStr))
             c1  == Call("put", joinedUsersStr, 1 \notin wf)
             st1 == PutState(st, joinedUsersStr, MarshalIndex(Append(ix, joineeId)))
             c2  == Call("put", joineeId, 2 \notin wf)
             st2 == PutState(st1, joineeId, RawBytes(initialAssetBalanceV0))
         IN  IF StringsIndex(joineeId, "_") = 0 THEN ReturnError(st, <<>>, "InvalidId")
             ELSE IF 1 \in rf THEN ReturnError(st, <<>>, "StorageFailure")
             ELSE IF InIndex(ix, joineeId) THEN ReturnError(st, <<>>, "AlreadyExists")
             ELSE IF 1 \in wf THEN ReturnError(st, <<c1>>, "StorageFailure")
             ELSE IF 2 \in wf THEN ReturnError(st1, <<c1, c2>>, "StorageFailure")
             ELSE ReturnOk(st2, <<c1, c2>>, NoBytes)

\* transfer's test of the two ids
ValidIdsV0(senderId, receiverId) ==
    ~(StringsIndex(senderId, "_") = 1 \/ StringsIndex(receiverId, "_") = 1)

\* reads: 1 (index), 2 (sender), 3 (receiver); writes: 1 (sender),
\* 2 (receiver); the statements after the return of the second failure are
\* never run
transferV0(st, args, rf, wf) ==
    IF Len(args) # 3 THEN ReturnError(st, <<>>, "ArgCount")
    ELSE LET senderId   == args[1]
             receiverId == args[2]
             q          == Atoi(args[3])
             ix         == IndexOrNil(GetState(st, joinedUsersStr))
             s          == AtoiBytes(GetState(st, senderId))
             r          == AtoiBytes(GetState(st, receiverId))
             newSenderAssetBalance   == s.v - q.v
             newReceiverAssetBalance == r.v + q.v
             c1  == Call("put", senderId, 1 \notin wf)
             st1 == PutState(st, senderId, RawBytes(Itoa(newSenderAssetBalance)))
             c2  == Call("put", receiverId, 2 \notin wf)
             st2 == PutState(st1, receiverId, RawBytes(Itoa(newReceiverAssetBalance)))
         IN  IF ~q.ok THEN ReturnError(st, <<>>, "NotInteger")
             ELSE IF ~ValidIdsV0(senderId, receiverId)
                  THEN ReturnError(st, <<>>, "InvalidId")
             ELSE IF senderId = receiverId THEN ReturnError(st, <<>>, "SelfTransfer")
             ELSE IF 1 \in rf THEN ReturnError(st, <<>>, "StorageFailure")
             ELSE IF ~InIndex(ix, senderId) THEN ReturnError(st, <<>>, "SenderNotMember")
             ELSE IF ~InIndex(ix, receiverId)
                  THEN ReturnError(st, <<>>, "ReceiverNotMember")
             ELSE IF 2 \in rf \/ 3 \in rf THEN ReturnError(st, <<>>, "StorageFailure")
             ELSE IF ~s.ok THEN ReturnError(st, <<>>, "BalanceUnreadable")
             ELSE IF newSenderAssetBalance < 0
                  THEN ReturnError(st, <<>>, "InsufficientFunds")
             ELSE IF ~r.ok THEN ReturnError(st, <<>>, "BalanceUnreadable")
             ELSE IF 1 \in wf THEN ReturnError(st, <<c1>>, "StorageFailure")
             ELSE IF 2 \in wf THEN ReturnError(st1, <<c1, c2>>, "StorageFailure")
             ELSE ReturnOk(st2, <<c1, c2>>, NoBytes)

ChaincodeInitV0(st, args, wf) ==
    IF Len(args) # 0 THEN ReturnError(st, <<>>, "ArgCount")
    ELSE IF 1 \in wf
         THEN ReturnError(st, <<Call("put", joinedUsersStr, FALSE)>>, "StorageFailure")
         ELSE ReturnOk(PutState(st, joinedUsersStr, MarshalIndex(<<>>)),
                       <<Call("put", joinedUsersStr, TRUE)>>, NoBytes)

\* Invoke hands the handler's result back as it is
InvokeV0(st, function, args, rf, wf) ==
    LET pass(fn, r) == [st |-> r.st, calls |-> r.calls, fn |-> fn,
                        hres |-> r.res, res |-> r.res]
    IN  IF function = fnInit THEN pass("Init", ChaincodeInitV0(st, args, wf))
        ELSE IF function = fnJoin THEN pass("join", joinV0(st, args, rf, wf))
        ELSE IF function = fnTransfer
             THEN pass("transfer", transferV0(st, args, rf, wf))
        ELSE pass("none", ReturnErrorWith(st, <<>>, "UnknownFunction", function))

\* Query: "summary" has an empty branch and falls through to the error
QueryV0(st, function, args, rf) ==
    IF function = fnGetAssetBalance
    THEN IF Len(args) # 1 THEN ReturnError(st, <<>>, "ArgCount")
         ELSE IF 1 \in rf THEN ReturnError(st, <<>>, "StorageFailure")
         ELSE ReturnOk(st, <<>>, GetState(st, args[1]))
    ELSE ReturnErrorWith(st, <<>>, "UnknownFunction", function)

----------------------------------------------------------------------------
(* Inputs *)

idAdmin == <<"a", "d", "m", "i", "n">>

idAl == <<"a", "l">>

idBo == <<"b", "o">>

\* an id with an underscore in second place
idB_ == <<"b", "_">>

idEmpty == <<>>

idSystem == <<"_", "x">>

\* identities of invokers (the username attribute of the certificate)
Invokers == {idAdmin, idAl, idBo}

\* ids passed as arguments
ArgIds ==
    IF variant = "roles" THEN {idAl, idBo, idEmpty, idSystem}
    ELSE {idAl, idB_, idEmpty, idSystem}

roleOther == <<"r", "o", "o", "t">>

ArgRoles == {roleAdmin, roleUser, roleOther}

Quantities1 == <<"1", "0", "0">>

Quantities == {Quantities1, <<"-", "2", "0", "0">>, <<"x">>}

fnOther == <<"s", "u", "m", "m", "a", "r", "y">>

JoinArgs == {<<i, r>> : i \in ArgIds, r \in ArgRoles}

JoinArgsV0 == {<<i>> : i \in ArgIds}

TransferArgs == {<<s, r, q>> : s \in ArgIds, r \in ArgIds, q \in Quantities}

\* argument lists offered to a handler: the well-formed ones and lists of
\* another length
ArgsOf(function) ==
    IF function = fnJoin
    THEN IF variant = "roles" THEN JoinArgs \cup {<<idAl>>}
         ELSE JoinArgsV0 \cup {<<idAl, roleUser>>}
    ELSE IF function = fnTransfer THEN TransferArgs \cup {<<idAl, idEmpty>>}
    ELSE IF function = fnGetAssetBalance THEN JoinArgsV0 \cup {<<>>}
    ELSE {<<>>, <<idAl>>}

\* argument lists sent through the dispatcher of the role-gated contract,
\* which hands them to the handler untouched
InvokeArgsOf(function) ==
    IF function = fnJoin
    THEN {<<idAl, roleUser>>, <<idBo, roleAdmin>>, <<idBo, roleOther>>, <<idAl>>}
    ELSE IF function = fnTransfer
    THEN {<<idAl, idBo, Quantities1>>, <<idBo, idAl, Quantities1>>,
          <<idAl, idAl, Quantities1>>, <<idAl, idBo>>}
    ELSE {<<>>, <<idAl>>}

\* store faults offered to one invocation: the reads (rf) and writes (wf)
\* that fail, by their number within the handler, for a handler with nr
\* reads and nw writes.  A handler ends at its first failed read and at its
\* first failed write, but for the compensating third write that follows a
\* failed second one.
FaultsFor(nr, nw) ==
    {[rf |-> {}, wf |-> w] : w \in {x \in {{}, {1}, {2}, {2, 3}} : x \subseteq 1..nw}}
        \cup {[rf |-> {i}, wf |-> {}] : i \in 1..nr}

\* the faults that matter to the handler a function name routes to
Faults(function) ==
    IF function = fnInit THEN FaultsFor(0, 1)
    ELSE IF function = fnJoin THEN FaultsFor(1, 3)
    ELSE IF function = fnTransfer THEN FaultsFor(3, 3)
    ELSE IF function \in {fnGetAssetBalance, fnGetAllJoinedUsers} THEN FaultsFor(1, 0)
    ELSE FaultsFor(0, 0)

NoFault == [rf |-> {}, wf |-> {}]

----------------------------------------------------------------------------
(* Actions: one invocation each *)

Idle ==
    [via |-> "idle", fn |-> "none", function |-> <<>>, userId |-> <<>>,
     userRole |-> <<>>, args |-> <<>>, calls |-> <<>>,
     hres |-> Outcome("none", "", <<>>, NoBytes),
     res  |-> Outcome("none", "", <<>>, NoBytes)]

\* via: the entry point called; fn: the handler that ran; userId, userRole:
\* the invoker context handed to it; hres: how the handler ended; res: how
\* the entry point ended
Report(via, fn, function, userId, userRole, args, calls, hres, res) ==
    [via |-> via, fn |-> fn, function |-> function, userId |-> userId,
     userRole |-> userRole, args |-> args, calls |-> calls,
     hres |-> hres, res |-> res]

\* the failures a store fault ends an invocation with
FaultKinds == {"StorageFailure", "RolledBack", "ManualRollback", "Inconsistent"}

Finish(st, rep) ==
    /\ store' = st
    /\ reply' = rep
    /\ ncalls' = ncalls + 1
    /\ faulted' = (faulted \/ rep.hres.err \in FaultKinds)
    /\ UNCHANGED variant

\* the role the dispatcher resolves for an invoker: that of its record, the
\* empty string when the struct is left at its zero value
RoleOf(st, userId) == getUserDetails(st, userId, FALSE).v.Role

\* the host calls Init at deployment, without passing through Invoke
Deploy(args, f) ==
    LET r == ChaincodeInit(store, args, f.wf)
    IN  Finish(r.st, Report("Init", "Init", fnInit, <<>>, <<>>, args,
                            r.calls, r.res, r.res))

\* the handlers of the role-gated contract, called with the invoker context
\* the dispatcher resolves
JoinCall(userId, args, f) ==
    LET userRole == RoleOf(store, userId)
        r == join(store, userId, userRole, args, f.rf, f.wf)
    IN  Finish(r.st, Report("join", "join", fnJoin, userId, userRole, args,
                            r.calls, r.res, r.res))

TransferCall(userId, args, f) ==
    LET userRole == RoleOf(store, userId)
        r == transfer(store, userId, userRole, args, f.rf, f.wf)
    IN  Finish(r.st, Report("transfer", "transfer", fnTransfer, userId,
                            userRole, args, r.calls, r.res, r.res))

InvokeCall(invoker, function, args, cf, uf, f) ==
    LET r == Invoke(store, invoker, function, args, cf, uf, f.rf, f.wf)
    IN  Finish(r.st, Report("Invoke", r.fn, function, invoker, r.role, args,
                            r.calls, r.hres, r.res))

QueryCall(function, args, f) ==
    LET r == Query(store, function, args, f.rf)
    IN  Finish(r.st, Report("Query", "none", function, <<>>, <<>>, args,
                            r.calls, r.res, r.res))

DeployV0(args, f) ==
    LET r == ChaincodeInitV0(store, args, f.wf)
    IN  Finish(r.st, Report("Init", "Init", fnInit, <<>>, <<>>, args,
                            r.calls, r.res, r.res))

InvokeCallV0(function, args, f) ==
    LET r == InvokeV0(store, function, args, f.rf, f.wf)
    IN  Finish(r.st, Report("Invoke", r.fn, function, <<>>, <<>>, args,
                            r.calls, r.hres, r.res))

QueryCallV0(function, args, f) ==
    LET r == QueryV0(store, function, args, f.rf)
    IN  Finish(r.st, Report("Query", "none", function, <<>>, <<>>, args,
                            r.calls, r.res, r.res))

\* the host hands the report to the caller
Return ==
    /\ reply # Idle
    /\ reply' = Idle
    /\ UNCHANGED <<variant, store, ncalls, faulted>>

Init ==
    /\ variant \in {"roles", "noroles"}
    /\ store = EmptyStore
    /\ reply = Idle
    /\ ncalls = 0
    /\ faulted = FALSE

\* the dispatcher's own faults (certificate attribute, invoker's record),
\* or those of the handler
InvokeFaults(function) ==
    {<<FALSE, FALSE, f>> : f \in Faults(function)}
        \cup {<<TRUE, FALSE, NoFault>>, <<FALSE, TRUE, NoFault>>}

\* an invocation starts when the previous report has been handed over
Ready(v) == reply = Idle /\ variant = v /\ ncalls < MaxCalls

Next ==
    \/ /\ Ready("roles")
       /\ \E args \in ArgsOf(fnInit), f \in Faults(fnInit) : Deploy(args, f)
    \/ /\ Ready("roles")
       /\ \E u \in Invokers, args \in ArgsOf(fnJoin), f \in Faults(fnJoin) :
             JoinCall(u, args, f)
    \/ /\ Ready("roles")
       /\ \E u \in Invokers, args \in ArgsOf(fnTransfer),
             f \in Faults(fnTransfer) : TransferCall(u, args, f)
    \/ /\ Ready("roles")
       /\ \E u \in Invokers, fn \in {fnInit, fnJoin, fnTransfer, fnOther} :
             \E args \in InvokeArgsOf(fn), c \in InvokeFaults(fn) :
                InvokeCall(u, fn, args, c[1], c[2], c[3])
    \/ /\ Ready("roles")
       /\ \E fn \in {fnGetAssetBalance, fnGetAllJoinedUsers, fnOther} :
             \E args \in ArgsOf(fn), f \in Faults(fn) : QueryCall(fn, args, f)
    \/ /\ Ready("noroles")
       /\ \E args \in ArgsOf(fnInit), f \in Faults(fnInit) : DeployV0(args, f)
    \/ /\ Ready("noroles")
       /\ \E fn \in {fnInit, fnJoin, fnTransfer, fnOther} :
             \E args \in ArgsOf(fn), f \in Faults(fn) : InvokeCallV0(fn, args, f)
    \/ /\ Ready("noroles")
       /\ \E fn \in {fnGetAssetBalance, fnOther} :
             \E args \in ArgsOf(fn), f \in Faults(fn) : QueryCallV0(fn, args, f)
    \/ Return

Spec == Init /\ [][Next]_vars

\* the world state of the role-gated contract after Init and the joins of
\* two users by "admin", none of which met a fault
MembersStore ==
    LET st0 == ChaincodeInit(EmptyStore, <<>>, {}).st
        st1 == join(st0, idAdmin, <<>>, <<idAl, roleUser>>, {}, {}).st
    IN  join(st1, idAdmin, <<>>, <<idBo, roleUser>>, {}, {}).st

\* a network of two members, about to be invoked
InitSupply ==
    /\ variant = "roles"
    /\ store = MembersStore
    /\ reply = Idle
    /\ ncalls = 0
    /\ faulted = FALSE

\* the invocations that write, of the role-gated contract, with a store
\* that does not fail
NextSupply ==
    \/ /\ Ready("roles")
       /\ \E args \in ArgsOf(fnInit) : Deploy(args, NoFault)
    \/ /\ Ready("roles")
       /\ \E u \in Invokers, args \in ArgsOf(fnJoin) : JoinCall(u, args, NoFault)
    \/ /\ Ready("roles")
       /\ \E u \in Invokers, args \in ArgsOf(fnTransfer) :
             TransferCall(u, args, NoFault)
    \/ /\ Ready("roles")
       /\ \E u \in Invokers, fn \in {fnInit, fnJoin, fnTransfer} :
             \E args \in InvokeArgsOf(fn) :
                InvokeCall(u, fn, args, FALSE, FALSE, NoFault)
    \/ Return

SpecSupply == InitSupply /\ [][NextSupply]_vars

----------------------------------------------------------------------------
(* Properties *)

\* a handler of the role-gated contract has just run, called directly or
\* through Invoke
Ran(fn) == variant = "roles" /\ reply.fn = fn

\* the balance in the participant record of id
Balance(st, id) == UnmarshalUser(GetState(st, varJoinedUsers \o id)).v.AssetBalance

\* the joined-identifiers index of the deployed contract
IndexOf(st) ==
    IF variant = "roles" THEN UnmarshalIndex(GetState(st, varJoinedUsersIndex)).v
    ELSE IndexOrNil(GetState(st, joinedUsersStr))

StartsWithUnderscore(id) == Len(id) > 0 /\ id[1] = "_"

\* the failures of a precondition of join or transfer
PreconditionKinds ==
    {"ArgCount", "InvalidId", "InvalidRole", "SelfTransfer", "PermissionDenied",
     "NotInteger", "AlreadyExists", "SenderNotMember", "ReceiverNotMember",
     "InsufficientFunds"}

\* C1: a transfer of the role-gated contract that ends in success leaves the
\* sum of the sender's and the receiver's recorded balances as it was
C1_Conservation ==
    [][(variant = "roles" /\ reply'.fn = "transfer" /\ reply'.hres.out = "ok")
         => LET s == reply'.args[1]
                r == reply'.args[2]
            IN  Balance(store', s) + Balance(store', r)
                    = Balance(store, s) + Balance(store, r)]_vars

C1_Witness == Ran("transfer") /\ reply.hres.out = "ok"

\* C2: with no store fault so far, every participant record of the
\* role-gated contract holds a balance >= 0
C2_NonNegative ==
    (variant = "roles" /\ ~faulted)
        => \A k \in DOMAIN store :
              store[k].j = "object" => UnmarshalUser(store[k]).v.AssetBalance >= 0

\* the sender's record was written and the write of the receiver's failed
ReceiverWriteFailed(calls) == Len(calls) >= 2 /\ calls[1].ok /\ ~calls[2].ok

\* C3: when the receiver write of a transfer fails after the sender write,
\* the transfer ends with the sender's record at its earlier balance or
\* with the inconsistent / manual-reversal failure
C3_Compensation ==
    [][(variant = "roles" /\ reply'.fn = "transfer"
          /\ ReceiverWriteFailed(reply'.calls))
         => \/ Balance(store', reply'.args[1]) = Balance(store, reply'.args[1])
            \/ reply'.hres.err = "Inconsistent"]_vars

\* C4: the joined-identifiers index holds no id twice
C4_IndexUnique ==
    \A i, j \in 1..Len(IndexOf(store)) :
        IndexOf(store)[i] = IndexOf(store)[j] => i = j

C4_Witness ==
    /\ reply.fn = "join"
    /\ reply.hres.err = "AlreadyExists"
    /\ Len(IndexOf(store)) >= 2

\* the world state in which init has run and nothing else
OnlyInitRan(st) ==
    DOMAIN st = {varJoinedUsersIndex} /\ st[varJoinedUsersIndex] = JsonNull

\* C5: on the world state left by init alone, a join with valid arguments
\* sent through Invoke by "admin" succeeds, and the balance query of the
\* joinee then returns 100
C5_BootstrapJoin ==
    [][(/\ variant = "roles"
        /\ OnlyInitRan(store)
        /\ reply'.via = "Invoke"
        /\ reply'.userId = bootstrapId
        /\ reply'.function = fnJoin
        /\ reply'.args = <<idAl, roleUser>>
        /\ reply'.hres.err \notin FaultKinds
        /\ reply'.hres.err # "CertAttribute")
         => /\ reply'.res.out = "ok"
            /\ Query(store', fnGetAssetBalance, <<idAl>>, {}).res
                 = Outcome("ok", "", <<>>, RawBytes(<<"1", "0", "0">>))]_vars

\* C6: Invoke turns a panic of the routed handler into a returned error, and
\* a handler that returns success into a success with no error and no payload
C6_InvokeResult ==
    (variant = "roles" /\ reply.via = "Invoke"
       /\ reply.fn \in {"Init", "join", "transfer"})
        => /\ reply.hres.out = "panic" => reply.res.out = "error"
           /\ reply.hres.out = "ok"
                => reply.res = Outcome("ok", "", <<>>, NoBytes)

\* a transfer by an invoker that is not the sender it names
ForeignTransfer(rep) ==
    /\ variant = "roles"
    /\ rep.fn = "transfer"
    /\ Len(rep.args) >= 1
    /\ rep.userId # rep.args[1]

\* C7, as claimed: a transfer by an invoker other than the sender fails with
\* permission-denied, whatever the arguments, and issues no put or delete
C7_Original ==
    [][ForeignTransfer(reply')
         => /\ reply'.hres.err = "PermissionDenied"
            /\ reply'.calls = <<>>
            /\ store' = store]_vars

\* C7, amended: a transfer by an invoker other than the sender fails and
\* issues no put or delete; the failure is permission-denied when three
\* arguments are given, neither id begins with an underscore and the two ids
\* differ, and otherwise that of the earlier check
C7_ForeignTransferFails ==
    [][ForeignTransfer(reply')
         => /\ reply'.hres.out # "ok"
            /\ reply'.calls = <<>>
            /\ store' = store
            /\ reply'.hres.err =
                 IF Len(reply'.args) # 3 THEN "ArgCount"
                 ELSE IF StartsWithUnderscore(reply'.args[1])
                         \/ StartsWithUnderscore(reply'.args[2])
                      THEN "InvalidId"
                 ELSE IF reply'.args[1] = reply'.args[2] THEN "SelfTransfer"
                 ELSE "PermissionDenied"]_vars

C7_Witness == Ran("transfer") /\ reply.hres.err = "PermissionDenied"

\* a join by an invoker that is neither "admin" nor an Administrator
UnauthorizedJoin(rep) ==
    /\ variant = "roles"
    /\ rep.fn = "join"
    /\ rep.userId # <<"a", "d", "m", "i", "n">>
    /\ rep.userRole # <<"a", "d", "m", "i", "n">>

\* C8: a join by an invoker that is neither "admin" nor an Administrator
\* fails, with permission-denied when it has its two arguments, and writes
\* nothing; the index grows only by a join of "admin" or of an Administrator
C8_JoinAuthorization ==
    [][/\ UnauthorizedJoin(reply')
            => /\ reply'.hres.out # "ok"
               /\ Len(reply'.args) = 2 => reply'.hres.err = "PermissionDenied"
               /\ reply'.calls = <<>>
               /\ store' = store
       /\ (variant = "roles" /\ Len(IndexOf(store')) > Len(IndexOf(store)))
            => reply'.fn = "join" /\ ~UnauthorizedJoin(reply')]_vars

C8_Witness ==
    Ran("join") /\ reply.hres.err = "PermissionDenied" /\ reply.userId = idAl

\* a join, with its two arguments and by an authorized invoker, of an id
\* that the index st holds, which meets no store fault
Rejoin(st, rep) ==
    /\ variant = "roles"
    /\ rep.fn = "join"
    /\ Len(rep.args) = 2
    /\ ~UnauthorizedJoin(rep)
    /\ \E i \in 1..Len(IndexOf(st)) : IndexOf(st)[i] = rep.args[1]
    /\ rep.hres.err \notin FaultKinds

\* C9, as claimed: a join of an id the index holds fails with already-exists
\* whatever the role argument, and changes nothing
C9_Original ==
    [][Rejoin(store, reply')
         => reply'.hres.err = "AlreadyExists" /\ store' = store]_vars

\* C9, amended: a join of an id the index holds fails and changes nothing;
\* the failure is already-exists when the role argument is "admin" or
\* "user", and invalid-role otherwise
C9_RejoinFails ==
    [][Rejoin(store, reply')
         => /\ reply'.hres.out = "panic"
            /\ reply'.hres.err =
                 IF reply'.args[2] \in {<<"a", "d", "m", "i", "n">>,
                                        <<"u", "s", "e", "r">>}
                 THEN "AlreadyExists" ELSE "InvalidRole"
            /\ reply'.calls = <<>>
            /\ store' = store]_vars

C9_Witness ==
    Ran("join") /\ reply.hres.err = "AlreadyExists" /\ reply.args[2] = roleAdmin

\* C10: a join or transfer that fails on a precondition has issued no put
\* or delete and leaves the world state as it was
C10_FailFast ==
    [][(variant = "roles" /\ reply'.fn \in {"join", "transfer"}
          /\ reply'.hres.err \in PreconditionKinds)
         => reply'.calls = <<>> /\ store' = store]_vars

C10_Witness == Ran("transfer") /\ reply.hres.err = "InsufficientFunds"

\* the keys of either world state other than those of ks hold the same bytes
SameOutside(st1, st2, ks) ==
    \A k \in (DOMAIN st1 \cup DOMAIN st2) \ ks : GetState(st1, k) = GetState(st2, k)

\* C11: a successful join(joineeId, joineeRole) of the role-gated contract
\* stores the record {joineeId, joineeRole, 100} under the joinee's key,
\* appends joineeId at the end of the index, and changes no other key
C11_JoinEffect ==
    [][(variant = "roles" /\ reply'.fn = "join" /\ reply'.hres.out = "ok")
         => LET joineeId  == reply'.args[1]
                joineeKey == <<"_", "j", "o", "i", "n", "e", "d", "U", "s", "e",
                               "r", "s", "_">> \o joineeId
            IN  /\ UnmarshalUser(GetState(store', joineeKey))
                     = [ok |-> TRUE,
                        v  |-> [Id |-> joineeId, Role |-> reply'.args[2],
                                AssetBalance |-> 100]]
                /\ IndexOf(store') = Append(IndexOf(store), joineeId)
                /\ SameOutside(store, store', {joineeKey, varJoinedUsersIndex})]_vars

C11_Witness ==
    /\ Ran("join")
    /\ reply.hres.out = "ok"
    /\ Len(IndexOf(store)) >= 2
    /\ IndexOf(store)[Len(IndexOf(store))] = reply.args[1]

\* the user a participant record holds
RecordOf(st, id) ==
    UnmarshalUser(GetState(st, <<"_", "j", "o", "i", "n", "e", "d", "U", "s",
                                 "e", "r", "s", "_">> \o id)).v

\* C12: a successful transfer(sender, receiver, q) of the role-gated contract
\* lowers the sender's balance by q and raises the receiver's by q, keeps
\* the id and role of both records, and changes no other key, the index
\* included
C12_TransferEffect ==
    [][(variant = "roles" /\ reply'.fn = "transfer" /\ reply'.hres.out = "ok")
         => LET s  == reply'.args[1]
                r  == reply'.args[2]
                q  == Atoi(reply'.args[3]).v
                pk == <<"_", "j", "o", "i", "n", "e", "d", "U", "s", "e", "r",
                        "s", "_">>
            IN  /\ RecordOf(store', s)
                     = [RecordOf(store, s) EXCEPT !.AssetBalance = @ - q]
                /\ RecordOf(store', r)
                     = [RecordOf(store, r) EXCEPT !.AssetBalance = @ + q]
                /\ GetState(store', pk \o s).j = "object"
                /\ GetState(store', pk \o r).j = "object"
                /\ IndexOf(store') = IndexOf(store)
                /\ SameOutside(store, store', {pk \o s, pk \o r})]_vars

C12_Witness ==
    /\ Ran("transfer")
    /\ reply.hres.out = "ok"
    /\ RecordOf(store, reply.args[1]).AssetBalance = 0
    /\ RecordOf(store, reply.args[2]).AssetBalance = 200
    /\ Cardinality(DOMAIN store) >= 4

\* the joinee's record was written and the write of the index failed
IndexWriteFailed(calls) == Len(calls) >= 2 /\ calls[1].ok /\ ~calls[2].ok

\* C13: when the index write of a join fails after the joinee's record was
\* written, join issues a delete of that record and fails; it ends with the
\* record absent and the index as it was, or with the manual-intervention
\* failure that names the joinee's key
C13_JoinCompensation ==
    [][(variant = "roles" /\ reply'.fn = "join" /\ IndexWriteFailed(reply'.calls))
         => LET joineeKey == <<"_", "j", "o", "i", "n", "e", "d", "U", "s", "e",
                               "r", "s", "_">> \o reply'.args[1]
            IN  /\ reply'.hres.out = "panic"
                /\ Len(reply'.calls) = 3
                /\ reply'.calls[3].op = "del"
                /\ reply'.calls[3].key = joineeKey
                /\ GetState(store', varJoinedUsersIndex)
                     = GetState(store, varJoinedUsersIndex)
                /\ \/ joineeKey \notin DOMAIN store'
                   \/ /\ reply'.hres.err = "ManualRollback"
                      /\ reply'.hres.detail = joineeKey]_vars

C13_Witness ==
    /\ Ran("join")
    /\ IndexWriteFailed(reply.calls)
    /\ reply.hres.err = "RolledBack"
    /\ reply.calls[3].ok

\* C14: whatever reads and writes have failed, every id in the index of the
\* role-gated contract has a participant record stored under its key
C14_IndexHasRecords ==
    variant = "roles"
        => \A i \in 1..Len(IndexOf(store)) :
              GetState(store, <<"_", "j", "o", "i", "n", "e", "d", "U", "s", "e",
                                "r", "s", "_">> \o IndexOf(store)[i]).j = "object"

C14_Witness ==
    /\ Ran("join")
    /\ IndexWriteFailed(reply.calls)
    /\ Len(IndexOf(store)) >= 1
    /\ faulted

\* C15: with no store fault so far, the getassetbalance query of the
\* role-gated contract for an id that the index does not hold fails
C15_BalanceOfMembersOnly ==
    (/\ variant = "roles"
     /\ ~faulted
     /\ reply.via = "Query"
     /\ reply.function = fnGetAssetBalance
     /\ Len(reply.args) = 1
     /\ \A i \in 1..Len(IndexOf(store)) : IndexOf(store)[i] # reply.args[1])
        => reply.res.out # "ok"

\* the key the deployed contract keeps its index under
IndexKey ==
    IF variant = "roles"
    THEN <<"_", "j", "o", "i", "n", "e", "d", "U", "s", "e", "r", "s",
           "I", "n", "d", "e", "x">>
    ELSE <<"_", "j", "o", "i", "n", "e", "d", "U", "s", "e", "r", "s">>

\* C16: in both contracts, Init without arguments that succeeds leaves an
\* index that reads as the empty sequence, whatever it was, and changes no
\* other key; it fails only when its one write fails, and then changes
\* nothing; Init with arguments returns an error and issues no write
C16_InitEffect ==
    [][reply'.fn = "Init"
         => /\ Len(reply'.args) = 0
                 => \/ /\ reply'.hres.out = "ok"
                       /\ UnmarshalIndex(GetState(store', IndexKey))
                            = [ok |-> TRUE, v |-> <<>>]
                       /\ SameOutside(store, store', {IndexKey})
                    \/ /\ reply'.hres.out = "error"
                       /\ reply'.calls = <<[op |-> "put", key |-> IndexKey,
                                            ok |-> FALSE]>>
                       /\ store' = store
            /\ Len(reply'.args) # 0
                 => /\ reply'.hres.out = "error"
                    /\ reply'.calls = <<>>
                    /\ store' = store]_vars

\* Init has just emptied an index and left the record of a participant
C16_Witness ==
    /\ Ran("Init")
    /\ reply.hres.out = "ok"
    /\ reply.args = <<>>
    /\ GetState(store, IndexKey) = JsonNull
    /\ \E k \in DOMAIN store : store[k].j = "object"

\* C17: a Query, whatever its function name and arguments and whether it
\* succeeds or fails, issues no put or delete and leaves the world state as
\* it was
C17_QueriesReadOnly ==
    [][reply'.via = "Query" => reply'.calls = <<>> /\ store' = store]_vars

\* a query has just failed on a world state that holds records
C17_Witness ==
    /\ variant = "roles"
    /\ reply.via = "Query"
    /\ reply.function = fnGetAllJoinedUsers
    /\ reply.res.out = "panic"
    /\ store # EmptyStore

\* C18: on an initialized network, a join of the role-gated contract by an
\* authorized invoker whose joineeId is empty or begins with "_" fails with
\* invalid-id and writes nothing
C18_JoineeIdValidated ==
    [][(/\ variant = "roles"
        /\ UnmarshalIndex(GetState(store, varJoinedUsersIndex)).ok
        /\ reply'.fn = "join"
        /\ Len(reply'.args) = 2
        /\ ~UnauthorizedJoin(reply')
        /\ reply'.args[1] = <<>> \/ StartsWithUnderscore(reply'.args[1]))
         => /\ reply'.hres.err = "InvalidId"
            /\ reply'.calls = <<>>
            /\ store' = store]_vars

\* the report is that of a join, of a transfer or of the query of the index
UsesIndex(rep) ==
    \/ rep.fn \in {"join", "transfer"}
    \/ rep.via = "Query" /\ rep.function = fnGetAllJoinedUsers

\* C19: while the index key of the role-gated contract has never been
\* written, join, transfer and the getalljoinedusers query fail and write
\* nothing; they end in a panic (but for the argument-count error transfer
\* returns), which is that of the unreadable index whenever the call passes
\* the checks made before the index is read and the read does not fail
C19_UninitializedFails ==
    [][(/\ variant = "roles"
        /\ <<"_", "j", "o", "i", "n", "e", "d", "U", "s", "e", "r", "s",
             "I", "n", "d", "e", "x">> \notin DOMAIN store
        /\ UsesIndex(reply'))
         => /\ reply'.hres.out # "ok"
            /\ reply'.calls = <<>>
            /\ store' = store
            /\ \/ reply'.hres.out = "panic"
               \/ reply'.fn = "transfer" /\ reply'.hres.err = "ArgCount"
            /\ reply'.hres.err \notin (PreconditionKinds \cup {"StorageFailure"})
                 => reply'.hres.err = "IndexUnmarshal"]_vars

C19_Witness ==
    /\ Ran("transfer")
    /\ reply.hres.err = "IndexUnmarshal"
    /\ reply.hres.out = "panic"
    /\ varJoinedUsersIndex \notin DOMAIN store

\* Invoke of the role-gated contract was called, with no fault of the
\* certificate or of the store, by an invoker that has a participant record
\* and with a function name it does not handle
InvokeUnknown(rep) ==
    /\ variant = "roles"
    /\ rep.via = "Invoke"
    /\ rep.function \notin {fnInit, fnJoin, fnTransfer}
    /\ GetState(store, <<"_", "j", "o", "i", "n", "e", "d", "U", "s", "e", "r",
                         "s", "_">> \o rep.userId).j = "object"
    /\ rep.hres.err \notin {"CertAttribute", "StorageFailure"}

\* Query of the role-gated contract was called with a function name it does
\* not handle
QueryUnknown(rep) ==
    /\ variant = "roles"
    /\ rep.via = "Query"
    /\ rep.function \notin {fnGetAssetBalance, fnGetAllJoinedUsers}

\* C20: Invoke, called by an invoker that has a record, and Query, given a
\* function name they do not handle, return an error that names the
\* function, and issue no write
C20_UnknownFunction ==
    (InvokeUnknown(reply) \/ QueryUnknown(reply))
        => /\ reply.res.out = "error"
           /\ reply.res.err = "UnknownFunction"
           /\ reply.res.detail = reply.function
           /\ reply.calls = <<>>

\* C21: in join and in transfer of the role-gated contract, when the first
\* write succeeds and the second fails, exactly one more store call is
\* issued (a delete in join, a put in transfer) and the operation panics;
\* when that call fails too, the failure carries the joinee's key (join) or
\* the sender's balance before the transfer (transfer)
C21_SingleCompensation ==
    [][(/\ variant = "roles"
        /\ reply'.fn \in {"join", "transfer"}
        /\ Len(reply'.calls) >= 2
        /\ reply'.calls[1].ok
        /\ ~reply'.calls[2].ok)
         => LET pk == <<"_", "j", "o", "i", "n", "e", "d", "U", "s", "e", "r",
                        "s", "_">>
            IN  /\ Len(reply'.calls) = 3
                /\ reply'.calls[1].op = "put"
                /\ reply'.calls[2].op = "put"
                /\ reply'.calls[3].op = (IF reply'.fn = "join" THEN "del" ELSE "put")
                /\ reply'.hres.out = "panic"
                /\ ~reply'.calls[3].ok
                     => IF reply'.fn = "join"
                        THEN /\ reply'.hres.err = "ManualRollback"
                             /\ reply'.hres.detail = pk \o reply'.args[1]
                        ELSE /\ reply'.hres.err = "Inconsistent"
                             /\ reply'.hres.detail
                                  = Itoa(RecordOf(store, reply'.args[1]).AssetBalance)]_vars

C21_Witness ==
    /\ Ran("transfer")
    /\ Len(reply.calls) = 3
    /\ ~reply.calls[2].ok
    /\ ~reply.calls[3].ok
    /\ reply.hres.err = "Inconsistent"
    /\ reply.hres.detail = <<"1", "0", "0">>

\* id is one of the ids the index of st lists
Listed(st, id) == \E i \in 1..Len(IndexOf(st)) : IndexOf(st)[i] = id

\* a transfer with three arguments, on a readable index that does not list
\* its sender or does not list its receiver
NonMemberTransfer(st, rep) ==
    /\ variant = "roles"
    /\ rep.fn = "transfer"
    /\ Len(rep.args) = 3
    /\ GetState(st, IndexKey).j \in {"null", "array"}
    /\ ~Listed(st, rep.args[1]) \/ ~Listed(st, rep.args[2])

\* the transfer passes the checks made before the index is looked at
WellFormedTransfer(rep) ==
    /\ ~StartsWithUnderscore(rep.args[1])
    /\ ~StartsWithUnderscore(rep.args[2])
    /\ rep.args[1] # rep.args[2]
    /\ rep.userId = rep.args[1]
    /\ Atoi(rep.args[3]).ok

\* C22: a transfer of the role-gated contract whose sender or receiver is
\* not in the index fails and writes nothing, whether or not a record of
\* that id is stored; when the transfer passes the earlier checks and the
\* index is read, the failure names the sender if it is missing, and the
\* receiver otherwise
C22_MembershipByIndex ==
    [][NonMemberTransfer(store, reply')
         => /\ reply'.hres.out = "panic"
            /\ reply'.calls = <<>>
            /\ store' = store
            /\ (WellFormedTransfer(reply') /\ reply'.hres.err # "StorageFailure")
                 => reply'.hres.err =
                      IF ~Listed(store, reply'.args[1]) THEN "SenderNotMember"
                      ELSE "ReceiverNotMember"]_vars

\* a transfer has just been refused to a sender whose record outlived a reset
C22_Witness ==
    /\ Ran("transfer")
    /\ reply.hres.err = "SenderNotMember"
    /\ GetState(store, <<"_", "j", "o", "i", "n", "e", "d", "U", "s", "e", "r",
                         "s", "_">> \o reply.args[1]).j = "object"
    /\ GetState(store, <<"_", "j", "o", "i", "n", "e", "d", "U", "s", "e", "r",
                         "s", "_">> \o reply.args[2]).j = "object"

\* C23: when the receiver write of a transfer of the role-less contract
\* fails after the sender write, transfer issues a third write and ends with
\* the sender's stored balance as it was before, or with a manual-reversal
\* failure
C23_CompensationV0 ==
    [][(variant = "noroles" /\ reply'.fn = "transfer"
          /\ ReceiverWriteFailed(reply'.calls))
         => /\ Len(reply'.calls) = 3
            /\ \/ GetState(store', reply'.args[1]) = GetState(store, reply'.args[1])
               \/ reply'.hres.err \in {"Inconsistent", "ManualRollback"}]_vars

\* the sum of the balances recorded for the ids of ix
RECURSIVE SumBalances(_, _)
SumBalances(st, ix) ==
    IF ix = <<>> THEN 0
    ELSE RecordOf(st, Head(ix)).AssetBalance + SumBalances(st, Tail(ix))

\* C24: with no store fault so far, the balances recorded for the ids of the
\* index of the role-gated contract add up to 100 for each id
C24_TotalSupply ==
    (variant = "roles" /\ ~faulted)
        => SumBalances(store, IndexOf(store)) = 100 * Len(IndexOf(store))

\* a user has just joined again after a reset, over a record that a transfer
\* had emptied, while the other user's record still holds what it received
C24_Witness ==
    /\ Ran("join")
    /\ reply.hres.out = "ok"
    /\ ~faulted
    /\ IndexOf(store) = <<idAl>>
    /\ RecordOf(store, idAl).AssetBalance = 100
    /\ RecordOf(store, idBo).AssetBalance = 200

\* C25: in the role-less contract, the id check of transfer refuses no id
\* that join has accepted: a transfer between two ids of the index does not
\* fail with invalid-id
C25_JoinedIdsMayTransfer ==
    [][(/\ variant = "noroles"
        /\ reply'.fn = "transfer"
        /\ Len(reply'.args) = 3
        /\ reply'.args[1] # reply'.args[2]
        /\ Listed(store, reply'.args[1])
        /\ Listed(store, reply'.args[2]))
         => reply'.hres.err # "InvalidId"]_vars

====
